---------------------------- MODULE Spec2Model ----------------------------
(***************************************************************************)
(* The Telegram webhook bot of supabase/functions/telegram-bot/index.ts.   *)
(*                                                                         *)
(* Every webhook request is served by its own asynchronous call of the     *)
(* serve callback (index.ts:186-200); calls interleave at every await.     *)
(* A slot holds one request in flight: its position (pc), the handler's    *)
(* local variables (history, aiResponse), the answer the transport got     *)
(* (resp) and the trace of what the request did to its collaborators       *)
(* (calls).  The history store is the only state shared by requests.       *)
(*                                                                         *)
(* Text is a sequence of symbols.  A literal of the source is one symbol;  *)
(* the symbol "W" stands for a long block of text (BlockTokens tokens).    *)
(***************************************************************************)
EXTENDS Integers, Sequences, FiniteSets, TLC

VARIABLES
    store,       \* the history store: key -> sequence of Message
    req,         \* slot -> the inbound request
    pc,          \* slot -> position of the request's handler
    history,     \* slot -> the handler's local `history`
    aiResponse,  \* slot -> the handler's local `aiResponse`
    calls,       \* slot -> trace of collaborator calls, replies and logs
    resp,        \* slot -> what the webhook transport was answered
    pending,     \* slot -> text of the awaited ctx.reply in flight
    nreq,        \* number of requests received so far
    afterClear   \* key -> what happened since the last completed /clear

vars == <<store, req, pc, history, aiResponse, calls, resp, pending, nreq,
          afterClear>>

---------------------------------------------------------------------------
(* Bounds *)

\* requests in flight at the same time
MaxConc == 2

\* requests received in one run
MaxReq == 3

\* tokens the estimator counts for one block symbol "W"
BlockTokens == 1001

---------------------------------------------------------------------------
(* Values *)

Slots == 1..MaxConc

\* ctx.from.id values; NoId is a missing id (undefined)
Users == {"u1", "u2"}
NoId == "undefined"
Keys == Users \cup {NoId}

Kinds == {"start", "credits", "ping", "history", "clear", "message"}

\* ctx.update.message.text of a free-text message: empty, or a long block
Texts == {<< >>, <<"W">>}

\* what the completion provider may answer
Responses == {<<"ok">>, <<"W">>}

\* The inbound requests.  secret: the query parameter equals FUNCTION_SECRET.
\* username: "owner" is in USERS, "stranger" is not, "none" is a missing
\* ctx.from.  A command carries no free text.
Requests ==
    { q \in [secret : BOOLEAN, username : {"owner", "stranger", "none"},
             id : Keys, kind : Kinds, text : Texts] :
        /\ (q.kind # "message" => q.text = << >>)
        /\ (q.username = "none" => q.id = NoId)
        /\ (q.username = "stranger" => q.id = "u1")
        /\ (~q.secret => q.username = "owner" /\ q.id = "u1") }

IdleReq == [secret |-> FALSE, username |-> "none", id |-> NoId,
            kind |-> "start", text |-> << >>]

\* the reply literals of index.ts
Denied == <<"Sorry, you are not allowed. This is personal AI Bot">>
Welcome == <<"Welcome! I will be your personal AI Assistant.">>
Pong == <<"Pong!">>
NoUserFound == <<"No User Found">>
HistoryIsEmpty == <<"History is empty">>
Cleared == <<"Your dialogue has been cleared">>
NoMessage == <<"No message">>
SorryError == <<"Sorry an error has occured, please try again later.">>

TokenThreshold == 2000

Entry(op, arg, res) == [op |-> op, arg |-> arg, res |-> res]

---------------------------------------------------------------------------
(* utils.ts: the helpers index.ts imports *)

RECURSIVE formatMessageHistory(_)
formatMessageHistory(messages) ==
    IF messages = << >> THEN << >>
    ELSE <<Head(messages).role, ": ">> \o Head(messages).content \o <<"\n">>
         \o formatMessageHistory(Tail(messages))

TokenWeight(c) == IF c = "W" THEN BlockTokens ELSE 1

RECURSIVE estimateTokens(_)
estimateTokens(text) ==
    IF text = << >> THEN 0
    ELSE TokenWeight(Head(text)) + estimateTokens(Tail(text))

getUserId(q) == q.id

\* the history store: get, set (replace, last write wins) and clear
getUserMessageHistory(k) == store[k]

updateUserMessageHistory(k, messages) == [store EXCEPT ![k] = messages]

clearUserMessageHistory(k) == [store EXCEPT ![k] = << >>]

---------------------------------------------------------------------------
(* index.ts: pure parts *)

IsAllowed(q) == q.secret

\* the middleware lets everyone through
isOwnerOpen(q) == TRUE

isOwner(q) == q.username = "owner"

\* the handlers an error boundary protects: bot.errorBoundary is given no
\* middleware and its composer is dropped
Protected == {}

UserMessage(text) == [role |-> "user", content |-> text]

\* the assistant message is stored as the provider returned it
AssistantMessageRaw(response) == [role |-> "assistant", content |-> response]

AssistantMessage(response) ==
    [role |-> "assistant", content |-> response \o <<"\n">>]

ReplaceAllNewlines(text) == SelectSeq(text, LAMBDA c : c # "\n")

NotSystem(m) == m.role # "system"

HistoryReply(h) ==
    IF formatMessageHistory(SelectSeq(h, NotSystem)) # << >>
    THEN formatMessageHistory(SelectSeq(h, NotSystem))
         \o <<"Approximate token usage for your query: ",
              ToString(estimateTokens(ReplaceAllNewlines(formatMessageHistory(h))))>>
    ELSE HistoryIsEmpty

AdvisoryReply(aprxTokens) ==
    <<"Just a heads up, you've used around *", ToString(aprxTokens),
      "* tokens for this query.">>

CreditsReply == <<"Here is your total OpenAI usage amount">>

---------------------------------------------------------------------------
Init ==
    /\ store = [k \in Keys |-> << >>]
    /\ req = [r \in Slots |-> IdleReq]
    /\ pc = [r \in Slots |-> "idle"]
    /\ history = [r \in Slots |-> << >>]
    /\ aiResponse = [r \in Slots |-> << >>]
    /\ calls = [r \in Slots |-> << >>]
    /\ resp = [r \in Slots |-> "none"]
    /\ pending = [r \in Slots |-> << >>]
    /\ nreq = 0
    /\ afterClear = [k \in Keys |-> "none"]

---------------------------------------------------------------------------
(* What a request that has not reached an await yet does on arrival:       *)
(* serve's secret check, the authorization middleware, then the handler    *)
(* up to its first await.  pc is the await it stops at, pending the reply  *)
(* it awaits, calls the replies it sent without awaiting them.             *)

Stop(at, text, sent, answer) ==
    [pc |-> at, pending |-> text, calls |-> sent, resp |-> answer]

HandlerStart(q) ==
    CASE q.kind = "start" -> Stop("reply", Welcome, << >>, "none")
      [] q.kind = "ping" -> Stop("reply", Pong, << >>, "none")
      [] q.kind = "credits" -> Stop("usage", << >>, << >>, "none")
      [] q.kind = "history" ->
            IF getUserId(q) = NoId
            THEN Stop("reply", NoUserFound, << >>, "none")
            ELSE Stop("hget", << >>, << >>, "none")
      [] q.kind = "clear" ->
            IF getUserId(q) = NoId
            THEN Stop("reply", NoUserFound, << >>, "none")
            ELSE Stop("hclear", << >>, << >>, "none")
      [] q.kind = "message" ->
            Stop("get", << >>,
                 IF q.text = << >>
                 THEN <<Entry("reply", NoMessage, "sent")>> ELSE << >>,
                 "none")

Middleware(q) ==
    IF ~isOwner(q) THEN Stop("reply", Denied, << >>, "none")
    ELSE HandlerStart(q)

Serve(q) ==
    IF ~IsAllowed(q) THEN Stop("done", << >>, << >>, "405")
    ELSE Middleware(q)

\* a message turn of key k is received
TurnSent(k) ==
    [afterClear EXCEPT ![k] = CASE @ = "quiet" -> "sent"
                                [] @ = "late" -> "written"
                                [] OTHER -> @]

\* a message turn writes the history of key k
TurnWritten(k) ==
    [afterClear EXCEPT ![k] = CASE @ = "quiet" -> "late"
                                [] @ = "sent" -> "written"
                                [] OTHER -> @]

\* a /clear of key k completes; only a clear of a non-empty history counts
ClearDone(k) ==
    [afterClear EXCEPT ![k] = IF store[k] # << >> THEN "quiet" ELSE @]

\* A finished request has no further effect: it is forgotten before
\* anything else happens.
NoneDone == \A r \in Slots : pc[r] # "done"

\* a request takes the first free slot
Arrive(r, q) ==
    /\ NoneDone
    /\ pc[r] = "idle"
    /\ \A r2 \in Slots : r2 < r => pc[r2] # "idle"
    /\ nreq < MaxReq
    /\ nreq' = nreq + 1
    /\ req' = [req EXCEPT ![r] = q]
    /\ pc' = [pc EXCEPT ![r] = Serve(q).pc]
    /\ pending' = [pending EXCEPT ![r] = Serve(q).pending]
    /\ calls' = [calls EXCEPT ![r] = Serve(q).calls]
    /\ resp' = [resp EXCEPT ![r] = Serve(q).resp]
    /\ afterClear' = IF Serve(q).pc = "get" THEN TurnSent(q.id) ELSE afterClear
    /\ UNCHANGED <<store, history, aiResponse>>

---------------------------------------------------------------------------
(* How a handler leaves the bot.  The transport is answered once: by the   *)
(* handler (returns or throws) or by the 40 s timer, whichever is first.   *)

\* the handler's promise resolves
Returns(r) == IF resp[r] = "none" THEN "200" ELSE resp[r]

\* the handler's promise rejects: handleUpdate throws into serve's catch
Throws(r) == IF resp[r] = "none" THEN "threw" ELSE resp[r]

ServeCatch(r) ==
    IF resp[r] = "none" THEN <<Entry("log", <<"serve">>, "ok")>> ELSE << >>

\* an error of collaborator call e in the handler of a command
CommandError(r, e) ==
    IF req[r].kind \in Protected
    THEN /\ calls' = [calls EXCEPT ![r] =
                        @ \o <<e, Entry("log", <<"errorBoundary">>, "ok")>>]
         /\ resp' = [resp EXCEPT ![r] = Returns(r)]
    ELSE /\ calls' = [calls EXCEPT ![r] = @ \o <<e>> \o ServeCatch(r)]
         /\ resp' = [resp EXCEPT ![r] = Throws(r)]

\* the catch block of the message handler, after collaborator call e failed
CatchBlock(r, e) ==
    /\ calls' = [calls EXCEPT ![r] =
                    @ \o <<e, Entry("log", <<"handler">>, "ok"),
                           Entry("reply", SorryError, "sent")>>]
    /\ resp' = [resp EXCEPT ![r] = Returns(r)]
    /\ pc' = [pc EXCEPT ![r] = "done"]

\* the 40 s timer of webhookCallback fires during the one slow call, the
\* completion provider's
\* the timer cancels the handler
TimeoutCancels(r) ==
    /\ NoneDone
    /\ pc[r] = "ai"
    /\ resp[r] = "none"
    /\ resp' = [resp EXCEPT ![r] = "timeout"]
    /\ calls' = [calls EXCEPT ![r] = @ \o <<Entry("timeout", << >>, "ok")>>]
    /\ pc' = [pc EXCEPT ![r] = "done"]
    /\ UNCHANGED <<store, req, history, aiResponse, pending, nreq, afterClear>>

Timeout(r) ==
    /\ NoneDone
    /\ pc[r] = "ai"
    /\ resp[r] = "none"
    /\ resp' = [resp EXCEPT ![r] = "timeout"]
    /\ calls' = [calls EXCEPT ![r] =
                    @ \o <<Entry("timeout", << >>, "ok")>> \o ServeCatch(r)]
    /\ UNCHANGED <<store, req, pc, history, aiResponse, pending, nreq,
                   afterClear>>

---------------------------------------------------------------------------
(* bot.command("credits") *)

UsageOk(r) ==
    /\ NoneDone
    /\ pc[r] = "usage"
    /\ calls' = [calls EXCEPT ![r] = @ \o <<Entry("usage", << >>, "ok")>>]
    /\ pending' = [pending EXCEPT ![r] = CreditsReply]
    /\ pc' = [pc EXCEPT ![r] = "replyCaught"]
    /\ UNCHANGED <<store, req, history, aiResponse, resp, nreq, afterClear>>

UsageFail(r) ==
    /\ NoneDone
    /\ pc[r] = "usage"
    /\ CommandError(r, Entry("usage", << >>, "fail"))
    /\ pc' = [pc EXCEPT ![r] = "done"]
    /\ UNCHANGED <<store, req, history, aiResponse, pending, nreq, afterClear>>

---------------------------------------------------------------------------
(* bot.command("history") *)

HistoryGetOk(r) ==
    /\ NoneDone
    /\ pc[r] = "hget"
    /\ history' = [history EXCEPT ![r] =
                      getUserMessageHistory(getUserId(req[r]))]
    /\ calls' = [calls EXCEPT ![r] = @ \o <<Entry("get", << >>, "ok")>>]
    /\ pending' = [pending EXCEPT ![r] =
                      HistoryReply(getUserMessageHistory(getUserId(req[r])))]
    /\ pc' = [pc EXCEPT ![r] = "reply"]
    /\ UNCHANGED <<store, req, aiResponse, resp, nreq, afterClear>>

HistoryGetFail(r) ==
    /\ NoneDone
    /\ pc[r] = "hget"
    /\ CommandError(r, Entry("get", << >>, "fail"))
    /\ pc' = [pc EXCEPT ![r] = "done"]
    /\ UNCHANGED <<store, req, history, aiResponse, pending, nreq, afterClear>>

---------------------------------------------------------------------------
(* bot.command("clear") *)

\* the handler confirms the clear without clearing
ClearOkSkips(r) ==
    /\ NoneDone
    /\ pc[r] = "hclear"
    /\ afterClear' = ClearDone(getUserId(req[r]))
    /\ calls' = [calls EXCEPT ![r] = @ \o <<Entry("clear", << >>, "ok")>>]
    /\ pending' = [pending EXCEPT ![r] = Cleared]
    /\ pc' = [pc EXCEPT ![r] = "reply"]
    /\ UNCHANGED <<store, req, history, aiResponse, resp, nreq>>

ClearOk(r) ==
    /\ NoneDone
    /\ pc[r] = "hclear"
    /\ store' = clearUserMessageHistory(getUserId(req[r]))
    /\ afterClear' = ClearDone(getUserId(req[r]))
    /\ calls' = [calls EXCEPT ![r] = @ \o <<Entry("clear", << >>, "ok")>>]
    /\ pending' = [pending EXCEPT ![r] = Cleared]
    /\ pc' = [pc EXCEPT ![r] = "reply"]
    /\ UNCHANGED <<req, history, aiResponse, resp, nreq>>

ClearFail(r) ==
    /\ NoneDone
    /\ pc[r] = "hclear"
    /\ CommandError(r, Entry("clear", << >>, "fail"))
    /\ pc' = [pc EXCEPT ![r] = "done"]
    /\ UNCHANGED <<store, req, history, aiResponse, pending, nreq, afterClear>>

---------------------------------------------------------------------------
(* bot.on("message") *)

GetOk(r) ==
    /\ NoneDone
    /\ pc[r] = "get"
    /\ history' = [history EXCEPT ![r] = getUserMessageHistory(req[r].id)]
    /\ calls' = [calls EXCEPT ![r] = @ \o <<Entry("get", << >>, "ok")>>]
    /\ LET aprxTokens == estimateTokens(formatMessageHistory(
                             getUserMessageHistory(req[r].id)))
       IN  IF aprxTokens > TokenThreshold
           THEN /\ pending' = [pending EXCEPT ![r] = AdvisoryReply(aprxTokens)]
                /\ pc' = [pc EXCEPT ![r] = "advisory"]
           ELSE /\ pending' = pending
                /\ pc' = [pc EXCEPT ![r] = "ai"]
    /\ UNCHANGED <<store, req, aiResponse, resp, nreq, afterClear>>

GetFail(r) ==
    /\ NoneDone
    /\ pc[r] = "get"
    /\ CatchBlock(r, Entry("get", << >>, "fail"))
    /\ UNCHANGED <<store, req, history, aiResponse, pending, nreq, afterClear>>

AdvisoryOk(r) ==
    /\ NoneDone
    /\ pc[r] = "advisory"
    /\ calls' = [calls EXCEPT ![r] = @ \o <<Entry("reply", pending[r], "ok")>>]
    /\ pc' = [pc EXCEPT ![r] = "ai"]
    /\ UNCHANGED <<store, req, history, aiResponse, resp, pending, nreq,
                   afterClear>>

AdvisoryFail(r) ==
    /\ NoneDone
    /\ pc[r] = "advisory"
    /\ CatchBlock(r, Entry("reply", pending[r], "fail"))
    /\ UNCHANGED <<store, req, history, aiResponse, pending, nreq, afterClear>>

\* the sequence handed to getAiResponse
Prompt(r) == history[r] \o <<UserMessage(req[r].text)>>

\* the assistant message is left out of the update
UpdatedWithoutReply(r) == history[r] \o <<UserMessage(req[r].text)>>

\* the sequence handed to updateUserMessageHistory
Updated(r) == history[r] \o <<UserMessage(req[r].text),
                              AssistantMessage(aiResponse[r])>>

AiOk(r, response) ==
    /\ NoneDone
    /\ pc[r] = "ai"
    /\ aiResponse' = [aiResponse EXCEPT ![r] = response]
    /\ calls' = [calls EXCEPT ![r] = @ \o <<Entry("complete", Prompt(r), "ok")>>]
    /\ pc' = [pc EXCEPT ![r] = "set"]
    /\ UNCHANGED <<store, req, history, resp, pending, nreq, afterClear>>

\* the user message is stored before the provider is called, and stays
\* stored when the call fails
AiFailKeepsMessage(r) ==
    /\ NoneDone
    /\ pc[r] = "ai"
    /\ store' = updateUserMessageHistory(req[r].id, Prompt(r))
    /\ CatchBlock(r, Entry("complete", Prompt(r), "fail"))
    /\ UNCHANGED <<req, history, aiResponse, pending, nreq, afterClear>>

AiFail(r) ==
    /\ NoneDone
    /\ pc[r] = "ai"
    /\ CatchBlock(r, Entry("complete", Prompt(r), "fail"))
    /\ UNCHANGED <<store, req, history, aiResponse, pending, nreq, afterClear>>

\* the update appends the new pair to what is stored now
SetOkAppends(r) ==
    /\ NoneDone
    /\ pc[r] = "set"
    /\ store' = updateUserMessageHistory(req[r].id,
                    getUserMessageHistory(req[r].id)
                    \o <<UserMessage(req[r].text),
                         AssistantMessage(aiResponse[r])>>)
    /\ afterClear' = TurnWritten(req[r].id)
    /\ calls' = [calls EXCEPT ![r] = @ \o <<Entry("set", Updated(r), "ok")>>]
    /\ pending' = [pending EXCEPT ![r] = aiResponse[r]]
    /\ pc' = [pc EXCEPT ![r] = "replyCaught"]
    /\ UNCHANGED <<req, history, aiResponse, resp, nreq>>

SetOk(r) ==
    /\ NoneDone
    /\ pc[r] = "set"
    /\ store' = updateUserMessageHistory(req[r].id, Updated(r))
    /\ afterClear' = TurnWritten(req[r].id)
    /\ calls' = [calls EXCEPT ![r] = @ \o <<Entry("set", Updated(r), "ok")>>]
    /\ pending' = [pending EXCEPT ![r] = aiResponse[r]]
    /\ pc' = [pc EXCEPT ![r] = "replyCaught"]
    /\ UNCHANGED <<req, history, aiResponse, resp, nreq>>

SetFail(r) ==
    /\ NoneDone
    /\ pc[r] = "set"
    /\ CatchBlock(r, Entry("set", Updated(r), "fail"))
    /\ UNCHANGED <<store, req, history, aiResponse, pending, nreq, afterClear>>

---------------------------------------------------------------------------
(* The last ctx.reply of a handler.  At "reply" the handler returns the    *)
(* promise, so that a failed send rejects the handler; at "replyCaught"    *)
(* the send has .catch((e) => console.error(e)).                           *)

ReplyOk(r) ==
    /\ NoneDone
    /\ pc[r] \in {"reply", "replyCaught"}
    /\ calls' = [calls EXCEPT ![r] = @ \o <<Entry("reply", pending[r], "ok")>>]
    /\ resp' = [resp EXCEPT ![r] = Returns(r)]
    /\ pc' = [pc EXCEPT ![r] = "done"]
    /\ UNCHANGED <<store, req, history, aiResponse, pending, nreq, afterClear>>

ReplyFail(r) ==
    /\ NoneDone
    /\ pc[r] \in {"reply", "replyCaught"}
    /\ IF pc[r] = "replyCaught"
       THEN /\ calls' = [calls EXCEPT ![r] =
                           @ \o <<Entry("reply", pending[r], "fail"),
                                  Entry("log", <<"reply">>, "ok")>>]
            /\ resp' = [resp EXCEPT ![r] = Returns(r)]
       ELSE /\ calls' = [calls EXCEPT ![r] =
                           @ \o <<Entry("reply", pending[r], "fail")>>
                             \o ServeCatch(r)]
            /\ resp' = [resp EXCEPT ![r] = Throws(r)]
    /\ pc' = [pc EXCEPT ![r] = "done"]
    /\ UNCHANGED <<store, req, history, aiResponse, pending, nreq, afterClear>>

\* the request is over and forgotten; its slot serves the next one
Retire(r) ==
    /\ pc[r] = "done"
    /\ req' = [req EXCEPT ![r] = IdleReq]
    /\ pc' = [pc EXCEPT ![r] = "idle"]
    /\ history' = [history EXCEPT ![r] = << >>]
    /\ aiResponse' = [aiResponse EXCEPT ![r] = << >>]
    /\ calls' = [calls EXCEPT ![r] = << >>]
    /\ resp' = [resp EXCEPT ![r] = "none"]
    /\ pending' = [pending EXCEPT ![r] = << >>]
    /\ UNCHANGED <<store, nreq, afterClear>>

---------------------------------------------------------------------------
Next ==
    \E r \in Slots :
        \/ \E q \in Requests : Arrive(r, q)
        \/ Timeout(r)
        \/ UsageOk(r)
        \/ UsageFail(r)
        \/ HistoryGetOk(r)
        \/ HistoryGetFail(r)
        \/ ClearOk(r)
        \/ ClearFail(r)
        \/ GetOk(r)
        \/ GetFail(r)
        \/ AdvisoryOk(r)
        \/ AdvisoryFail(r)
        \/ \E response \in Responses : AiOk(r, response)
        \/ AiFail(r)
        \/ SetOk(r)
        \/ SetFail(r)
        \/ ReplyOk(r)
        \/ ReplyFail(r)
        \/ Retire(r)

Spec == Init /\ [][Next]_vars

---------------------------------------------------------------------------
(* Reading the trace of a request *)

Collaborators == {"get", "set", "clear", "complete", "usage"}

\* positions of the entries of slot r with operation op
At(r, op) == {i \in DOMAIN calls[r] : calls[r][i].op = op}

Has(r, op) == At(r, op) # {}

HasRes(r, op, res) == \E i \in At(r, op) : calls[r][i].res = res

Replied(r, text) == \E i \in At(r, "reply") : calls[r][i].arg = text

\* a request that passed the secret check and the middleware
Admitted(r) == pc[r] # "idle" /\ req[r].secret /\ req[r].username = "owner"

Turn(r) == Admitted(r) /\ req[r].kind = "message"

IsAdvisory(e) ==
    /\ e.op = "reply"
    /\ e.arg # << >>
    /\ Head(e.arg) = "Just a heads up, you've used around *"

---------------------------------------------------------------------------
(* C1.  Turn atomicity: the step in which the completion-provider call of  *)
(* a message turn fails leaves every stored history as it is, the turn     *)
(* has made and makes no history write (no set, no clear), and it ends     *)
(* with the generic error reply as the last thing it sends.                *)
C1_TurnAtomicity ==
    [][\A r \in Slots :
        (pc[r] = "ai" /\ pc'[r] = "done") =>
            /\ store' = store
            /\ At(r, "set")' = {} /\ At(r, "clear")' = {}
            /\ HasRes(r, "complete", "fail")'
            /\ calls'[r][Len(calls'[r])] = Entry("reply", SorryError, "sent")
      ]_vars

\* a turn whose provider call failed, over a stored history that is not
\* empty and is still what the turn read
C1_Witness ==
    \E r \in Slots :
        /\ Turn(r) /\ pc[r] = "done"
        /\ HasRes(r, "complete", "fail")
        /\ Replied(r, SorryError)
        /\ history[r] # << >>
        /\ store[req[r].id] = history[r]

---------------------------------------------------------------------------
(* C2.  Successful turn: a message turn that has written the store called  *)
(* the provider exactly once, with the history it read followed by         *)
(* {user, t}; wrote the store exactly once, with that history followed by  *)
(* {user, t} and {assistant, r + "\n"}; and then sent exactly r as the     *)
(* reply; in the order provider call, write, reply.                        *)
C2_SuccessfulTurn ==
    \A r \in Slots :
        (Turn(r) /\ HasRes(r, "set", "ok")) =>
            /\ Cardinality(At(r, "complete")) = 1
            /\ Cardinality(At(r, "set")) = 1
            /\ \A i \in At(r, "complete") : \A j \in At(r, "set") :
                /\ i < j
                /\ calls[r][i].res = "ok"
                /\ calls[r][i].arg =
                     history[r] \o <<[role |-> "user", content |-> req[r].text]>>
                /\ calls[r][j].arg =
                     history[r] \o <<[role |-> "user", content |-> req[r].text],
                                     [role |-> "assistant",
                                      content |-> aiResponse[r] \o <<"\n">>]>>
                /\ aiResponse[r] \in Responses
                /\ pc[r] = "replyCaught" => pending[r] = aiResponse[r]
                /\ pc[r] = "done" =>
                     /\ calls[r][j + 1].op = "reply"
                     /\ calls[r][j + 1].arg = aiResponse[r]
                     /\ \A k \in At(r, "reply") :
                          k > j => k = j + 1

\* Scenario A: empty history, a turn answered by the provider and replied
C2_Witness ==
    \E r \in Slots :
        /\ Turn(r) /\ pc[r] = "done"
        /\ history[r] = << >>
        /\ HasRes(r, "set", "ok")
        /\ \E i \in At(r, "reply") :
             calls[r][i].arg = aiResponse[r] /\ calls[r][i].res = "ok"
        /\ store[req[r].id] =
             <<[role |-> "user", content |-> req[r].text],
               [role |-> "assistant", content |-> aiResponse[r] \o <<"\n">>]>>

---------------------------------------------------------------------------
(* C3.  Authorization gate: a request with a wrong secret does nothing at  *)
(* all and is answered 405; a request of a username outside the allow-list *)
(* makes no history read, no history write and no provider call, and the   *)
(* only thing it sends is the denial reply; for every command and every    *)
(* free-text message.                                                      *)
C3_AuthorizationGate ==
    \A r \in Slots :
        /\ (pc[r] # "idle" /\ ~req[r].secret) =>
              /\ calls[r] = << >>
              /\ pc[r] = "done"
              /\ resp[r] = "405"
        /\ (pc[r] # "idle" /\ req[r].secret /\ req[r].username # "owner") =>
              /\ \A op \in Collaborators : ~Has(r, op)
              /\ pc[r] \in {"reply", "done"}
              /\ pc[r] = "reply" => pending[r] = Denied /\ ~Has(r, "reply")
              /\ Cardinality(At(r, "reply")) <= 1
              /\ \A i \in At(r, "reply") : calls[r][i].arg = Denied

\* a stranger's free-text message, answered with the denial
C3_Witness ==
    \E r \in Slots :
        /\ pc[r] = "done"
        /\ req[r].secret /\ req[r].username = "stranger"
        /\ req[r].kind = "message"
        /\ \E i \in At(r, "reply") :
             calls[r][i].arg = Denied /\ calls[r][i].res = "ok"

---------------------------------------------------------------------------
(* C4.  Error containment: when a call of the history store (read, write,  *)
(* clear), of the provider's completion or of its usage query fails in the *)
(* free-text turn, /history, /clear or /credits, the error is caught and   *)
(* logged inside the bot and answered with the generic error reply; it     *)
(* never reaches the webhook transport.                                    *)
C4_ErrorContainment ==
    \A r \in Slots :
        (/\ Admitted(r)
         /\ pc[r] = "done"
         /\ req[r].kind \in {"message", "history", "clear", "credits"}
         /\ \E op \in Collaborators : HasRes(r, op, "fail")) =>
            /\ resp[r] # "threw"
            /\ \E i \in At(r, "log") :
                 calls[r][i].arg \in {<<"handler">>, <<"errorBoundary">>}
            /\ Replied(r, SorryError)

---------------------------------------------------------------------------
(* C5.  Identity-resolution early exit: a free-text turn, a /history or a  *)
(* /clear whose request carries no user id makes no history read, no       *)
(* history write and no provider call, and ends with "No User Found".      *)
C5_NoUserEarlyExit ==
    \A r \in Slots :
        (/\ Admitted(r)
         /\ req[r].id = NoId
         /\ req[r].kind \in {"message", "history", "clear"}) =>
            /\ \A op \in Collaborators : ~Has(r, op)
            /\ pc[r] = "done" => \E i \in At(r, "reply") :
                                    calls[r][i].arg = NoUserFound

---------------------------------------------------------------------------
(* C6.  The over-budget warning never halts a turn: a turn that read a     *)
(* history estimated above 2000 tokens sends the advisory and goes on to   *)
(* the provider call whatever became of the advisory; a turn that read a   *)
(* history estimated at 2000 or less sends no advisory.                    *)
C6_WarningNeverHalts ==
    \A r \in Slots :
        (Turn(r) /\ pc[r] = "done" /\ HasRes(r, "get", "ok")) =>
            IF estimateTokens(formatMessageHistory(history[r])) > TokenThreshold
            THEN /\ \E i \in At(r, "reply") : IsAdvisory(calls[r][i])
                 /\ Has(r, "complete")
            ELSE \A i \in At(r, "reply") : ~IsAdvisory(calls[r][i])

---------------------------------------------------------------------------
(* C7.  Clear then history, as claimed: once a /clear of a non-empty       *)
(* history of user u has completed, and as long as no message turn of u    *)
(* has been sent since, /history reports "History is empty".               *)
C7_ClearThenHistory ==
    \A u \in Users :
        afterClear[u] \in {"quiet", "late"} =>
            HistoryReply(getUserMessageHistory(u)) = HistoryIsEmpty

(* C7, amended.  Once a /clear of a non-empty history of user u has        *)
(* completed, and as long as no message turn of u has written the history  *)
(* since, the stored history of u is empty and /history reports "History   *)
(* is empty"; a /history answers with the report of the history it read.   *)
C7_ClearThenHistoryUntilWritten ==
    /\ \A u \in Users :
         afterClear[u] \in {"quiet", "sent"} =>
            /\ store[u] = << >>
            /\ HistoryReply(getUserMessageHistory(u)) = HistoryIsEmpty
    /\ \A r \in Slots :
         (Admitted(r) /\ req[r].kind = "history" /\ pc[r] = "reply"
            /\ req[r].id # NoId) =>
            /\ pending[r] = HistoryReply(history[r])
            /\ history[r] = << >> <=> pending[r] = HistoryIsEmpty

\* a /history of u answered "History is empty" after a completed clear of
\* a non-empty history of u
C7_Witness ==
    \E r \in Slots :
        /\ Admitted(r) /\ req[r].kind = "history" /\ pc[r] = "done"
        /\ req[r].id \in Users
        /\ afterClear[req[r].id] = "quiet"
        /\ \E i \in At(r, "reply") :
             calls[r][i].arg = HistoryIsEmpty /\ calls[r][i].res = "ok"

---------------------------------------------------------------------------
(* C8.  Timeout abandons the turn, as claimed: after the 40-second timeout *)
(* has fired on a turn waiting on the provider, the turn writes no         *)
(* history.                                                                *)
C8_TimeoutAbandonsTurn ==
    \A r \in Slots :
        \A i \in At(r, "timeout") : \A j \in At(r, "set") :
            ~(j > i /\ calls[r][j].res = "ok")

(* C8, amended.  The timeout answers the transport and nothing else: the   *)
(* step in which it fires on a turn waiting on the provider changes no     *)
(* stored history and leaves the turn where it is, still waiting; the      *)
(* turn is not cancelled.                                                  *)
C8_TimeoutOnlyAnswers ==
    [][\A r \in Slots :
        (resp[r] = "none" /\ resp'[r] = "timeout") =>
            /\ pc[r] = "ai" /\ pc'[r] = "ai"
            /\ store' = store
            /\ history' = history
            /\ ~Has(r, "set")'
      ]_vars

\* a turn that timed out, was answered by the provider afterwards and
\* then wrote the history
C8_Witness ==
    \E r \in Slots :
        /\ Turn(r) /\ resp[r] = "timeout"
        /\ \E i \in At(r, "timeout") : \E j \in At(r, "set") :
             j > i /\ calls[r][j].res = "ok"
        /\ store[req[r].id] = Updated(r)
        /\ store[req[r].id] # history[r]

---------------------------------------------------------------------------
(* C9.  Lost update: the write of a message turn of user u replaces the    *)
(* stored history of u by the history the turn read plus its own pair,     *)
(* whatever is stored at that moment, so that a pair written by another    *)
(* turn of u in between is lost; and a stored history is changed only by   *)
(* a step of a request of that same user.                                  *)
C9_LastWriteWins ==
    [][/\ \A r \in Slots :
            (pc[r] = "set" /\ pc'[r] = "replyCaught") =>
                store' = [store EXCEPT ![req[r].id] =
                            history[r]
                            \o <<[role |-> "user", content |-> req[r].text],
                                 [role |-> "assistant",
                                  content |-> aiResponse[r] \o <<"\n">>]>>]
       /\ \A k \in Keys :
            store'[k] # store[k] =>
                \E r \in Slots : req[r].id = k /\ pc'[r] # pc[r]
      ]_vars

\* two turns of one user that read the same history and both wrote: the
\* store holds the pair of one of them only
C9_Witness ==
    \E r1, r2 \in Slots :
        /\ r1 # r2
        /\ Turn(r1) /\ Turn(r2)
        /\ req[r1].id = req[r2].id /\ req[r1].id \in Users
        /\ history[r1] = history[r2]
        /\ HasRes(r1, "set", "ok") /\ HasRes(r2, "set", "ok")
        /\ req[r1].text # req[r2].text
        /\ store[req[r1].id] = Updated(r2)
        /\ Len(store[req[r1].id]) = Len(history[r1]) + 2

---------------------------------------------------------------------------
(* C10.  No half-written turn: every stored history has even length and    *)
(* alternates user, assistant, user, assistant.                            *)
C10_CompleteTurns ==
    \A k \in Keys :
        /\ Len(store[k]) % 2 = 0
        /\ \A i \in DOMAIN store[k] :
             store[k][i].role = IF i % 2 = 1 THEN "user" ELSE "assistant"

\* a history of two turns beside a turn whose store write failed
C10_Witness ==
    \E r \in Slots :
        /\ Turn(r) /\ pc[r] = "done"
        /\ HasRes(r, "set", "fail")
        /\ Len(store[req[r].id]) = 2
        /\ history[r] = store[req[r].id]

=============================================================================
